---- MODULE Spec2Model ----
(***************************************************************************)
(* The AgentTask escrow contract (src/contracts/AgentTask.sol) as a state  *)
(* machine.  A transaction is one call of createTask, submitTask or        *)
(* approveTask.  createTask and submitTask make no external call and are   *)
(* one step each.  approveTask hands control to the recipient of the       *)
(* reward at `payable(task.agent).transfer(task.reward)`: the call is      *)
(* split there.  While the transfer is in flight the recipient's code may  *)
(* call approveTask again (from any address it controls or can reach),     *)
(* accept the payment, or reject it; a rejected transfer reverts the call  *)
(* that made it, restoring the state that call started from.               *)
(***************************************************************************)
EXTENDS Integers, Sequences, FiniteSets, TLC

\* ------------------------------------------------------------------ bounds
MaxTasks == 2        \* createTask succeeds while fewer than MaxTasks tasks exist
MaxDepth == 2        \* nesting of approveTask calls whose transfer is in flight
InitBalance == 4     \* funds every account starts with
MaxRuns == 2         \* runs of fetchAllTasks the page starts

\* ------------------------------------------------------------- value sets
Addresses == {"a1", "a2"}            \* the accounts that send transactions
ZeroAddress == "0x0"                 \* address(0)
This == "AgentTask"                  \* address(this), the ledger
Values == {0, 1, 2}                  \* msg.value
Descriptions == {"", "d"}            \* description
Urls == {"", "u"}                    \* submissionUrl
TaskIds == 0..MaxTasks               \* taskId arguments; MaxTasks is never created

\* The revert reasons of the require statements.
ErrReward == "Reward must be greater than 0"
ErrDescription == "Description cannot be empty"
ErrNotFound == "Task does not exist"
ErrTaken == "Task already taken"
ErrUrl == "Submission URL cannot be empty"
ErrEmployer == "Only employer can approve"
ErrNotSubmitted == "Task not submitted yet"
ErrApproved == "Task already approved"
ErrNoAgent == "No agent assigned"
\* transfer() reverts without a reason when the recipient rejects the payment
\* or the ledger lacks the funds.
ErrTransfer == "transfer reverted"
NoErr == ""

VARIABLES
    nextTaskId,      \* uint256 private nextTaskId
    tasks,           \* mapping(uint256 => Task) tasks
    employerTasks,   \* mapping(address => uint256[]) employerTasks
    balance,         \* native balance of every account and of the ledger
    events,          \* the event log, by the indexed topic taskId
    paid,            \* the transfers made out of the ledger, by task
    stack,           \* approveTask calls whose transfer is in flight
    last             \* the call that completed last: op, ok, err

\* The page (src/unnamed/part_000) that reads the ledger.
VARIABLES
    forceRefresh,    \* const [forceRefresh, setForceRefresh] = useState(0)
    shownTasks,      \* const [tasks, setTasks] = useState<Task[]>([])
    runs             \* the runs of fetchAllTasks, in the order they started

page == <<forceRefresh, shownTasks, runs>>

vars == <<nextTaskId, tasks, employerTasks, balance, events, paid, stack, last>>

\* The storage a revert restores, as one record.
State ==
    [nextTaskId |-> nextTaskId, tasks |-> tasks, employerTasks |-> employerTasks,
     balance |-> balance, events |-> events, paid |-> paid]

\* A storage slot of `tasks` that was never written.
DefaultTask ==
    [id |-> 0, employer |-> ZeroAddress, agent |-> ZeroAddress, description |-> "",
     reward |-> 0, submissionUrl |-> "", isSubmitted |-> FALSE,
     isApproved |-> FALSE, isCompleted |-> FALSE]

Init ==
    /\ nextTaskId = 0
    /\ tasks = [i \in TaskIds |-> DefaultTask]
    /\ employerTasks = [a \in Addresses |-> <<>>]
    /\ balance = [a \in Addresses \cup {This} |-> IF a = This THEN 0 ELSE InitBalance]
    /\ events = [i \in TaskIds |-> <<>>]
    /\ paid = [i \in TaskIds |-> <<>>]
    /\ stack = <<>>
    /\ last = [op |-> "deploy", ok |-> TRUE, err |-> NoErr]
    /\ forceRefresh = 0
    /\ shownTasks = <<>>
    /\ runs = <<>>

\* --------------------------------------------------------------- queries
getTotalTasks(s) == s.nextTaskId

TaskExistsInclusive(s, taskId) == taskId <= s.nextTaskId

\* require(taskId < nextTaskId, ...)
TaskExists(s, taskId) == taskId < s.nextTaskId

getTask(s, taskId) ==
    IF TaskExists(s, taskId) THEN [ok |-> TRUE, err |-> NoErr, task |-> s.tasks[taskId]]
    ELSE [ok |-> FALSE, err |-> ErrNotFound, task |-> DefaultTask]

getEmployerTasks(s, employer) == s.employerTasks[employer]

\* The outcome of a call: whether it succeeded, its revert reason, the state after.
Reverted(s, err) == [ok |-> FALSE, err |-> err, st |-> s]
Succeeded(s) == [ok |-> TRUE, err |-> NoErr, st |-> s]

\* Put the state record s into the variables.
Install(s) ==
    /\ nextTaskId' = s.nextTaskId
    /\ tasks' = s.tasks
    /\ employerTasks' = s.employerTasks
    /\ balance' = s.balance
    /\ events' = s.events
    /\ paid' = s.paid

Completed(op, r) == [op |-> op, ok |-> r.ok, err |-> r.err]

\* ------------------------------------------------------------ createTask
RewardNotNegative(value) == value >= 0

\* require(msg.value > 0, ...)
RewardOk(value) == value > 0

\* require(bytes(description).length > 0, ...)
DescriptionOk(description) == description # ""

ReceiveValueKept(s, sender, value) == s

\* A payable call credits msg.value to the ledger before the body runs.
ReceiveValue(s, sender, value) ==
    [s EXCEPT !.balance[sender] = @ - value, !.balance[This] = @ + value]

NewTaskClaimed(id, sender, description, value) ==
    [id |-> id, employer |-> sender, agent |-> sender,
     description |-> description, reward |-> value, submissionUrl |-> "",
     isSubmitted |-> FALSE, isApproved |-> FALSE, isCompleted |-> FALSE]

NewTaskNoId(id, sender, description, value) ==
    [id |-> 0, employer |-> sender, agent |-> ZeroAddress,
     description |-> description, reward |-> value, submissionUrl |-> "",
     isSubmitted |-> FALSE, isApproved |-> FALSE, isCompleted |-> FALSE]

\* Task memory newTask = Task({...})
NewTask(id, sender, description, value) ==
    [id |-> id, employer |-> sender, agent |-> ZeroAddress,
     description |-> description, reward |-> value, submissionUrl |-> "",
     isSubmitted |-> FALSE, isApproved |-> FALSE, isCompleted |-> FALSE]

\* emit TaskCreated(nextTaskId, msg.sender, msg.value, description)
TaskCreated(taskId, employer, reward, description) ==
    <<"TaskCreated", taskId, employer, reward, description>>

NextIdSkips(id) == id + 2

\* nextTaskId++
NextId(id) == id + 1

PushFront(list, id) == <<id>> \o list

\* employerTasks[msg.sender].push(nextTaskId)
PushEmployerTask(list, id) == Append(list, id)

createTask(s, sender, value, description) ==
    IF ~RewardOk(value) THEN Reverted(s, ErrReward)
    ELSE IF ~DescriptionOk(description) THEN Reverted(s, ErrDescription)
    ELSE LET id == s.nextTaskId
             s1 == ReceiveValue(s, sender, value)
         IN Succeeded(
              [s1 EXCEPT !.tasks[id] = NewTask(id, sender, description, value),
                         !.employerTasks[sender] = PushEmployerTask(@, id),
                         !.events[id] = Append(@, TaskCreated(id, sender, value, description)),
                         !.nextTaskId = NextId(id)])

\* ------------------------------------------------------------ submitTask
NotTakenUnlessApproved(task) == ~task.isApproved

\* require(task.agent == address(0), ...)
NotTaken(task) == task.agent = ZeroAddress

\* require(bytes(submissionUrl).length > 0, ...)
UrlOk(submissionUrl) == submissionUrl # ""

SubmitClaimOnly(task, sender, submissionUrl) ==
    [task EXCEPT !.agent = sender, !.submissionUrl = submissionUrl]

SubmitFlagOnly(task, sender, submissionUrl) ==
    [task EXCEPT !.submissionUrl = submissionUrl, !.isSubmitted = TRUE]

SubmitMarksCompleted(task, sender, submissionUrl) ==
    [task EXCEPT !.agent = sender, !.submissionUrl = submissionUrl,
                 !.isSubmitted = TRUE, !.isCompleted = TRUE]

\* task.agent = msg.sender; task.submissionUrl = submissionUrl; task.isSubmitted = true
Submit(task, sender, submissionUrl) ==
    [task EXCEPT !.agent = sender, !.submissionUrl = submissionUrl, !.isSubmitted = TRUE]

\* emit TaskSubmitted(taskId, msg.sender, submissionUrl)
TaskSubmitted(taskId, agent, submissionUrl) ==
    <<"TaskSubmitted", taskId, agent, submissionUrl>>

\* The URL check moved in front of the claim check.
submitTaskUrlFirst(s, sender, taskId, submissionUrl) ==
    LET task == s.tasks[taskId] IN
    IF ~TaskExists(s, taskId) THEN Reverted(s, ErrNotFound)
    ELSE IF ~UrlOk(submissionUrl) THEN Reverted(s, ErrUrl)
    ELSE IF ~NotTaken(task) THEN Reverted(s, ErrTaken)
    ELSE Succeeded(
           [s EXCEPT !.tasks[taskId] = Submit(task, sender, submissionUrl),
                     !.events[taskId] = Append(@, TaskSubmitted(taskId, sender, submissionUrl))])

submitTask(s, sender, taskId, submissionUrl) ==
    LET task == s.tasks[taskId] IN
    IF ~TaskExists(s, taskId) THEN Reverted(s, ErrNotFound)
    ELSE IF ~NotTaken(task) THEN Reverted(s, ErrTaken)
    ELSE IF ~UrlOk(submissionUrl) THEN Reverted(s, ErrUrl)
    ELSE Succeeded(
           [s EXCEPT !.tasks[taskId] = Submit(task, sender, submissionUrl),
                     !.events[taskId] = Append(@, TaskSubmitted(taskId, sender, submissionUrl))])

\* ----------------------------------------------------------- approveTask
OnlyEmployerOrAgent(sender, task) == sender \in {task.employer, task.agent}

OnlyEmployerNotAgent(sender, task) == sender = task.employer /\ sender # task.agent

\* require(msg.sender == task.employer, ...)
OnlyEmployer(sender, task) == sender = task.employer

IsSubmittedUnchecked(task) == TRUE

\* require(task.isSubmitted, ...)
IsSubmitted(task) == task.isSubmitted

NotApprovedUnchecked(task) == TRUE

\* require(!task.isApproved, ...)
NotApproved(task) == ~task.isApproved

\* require(task.agent != address(0), ...)
HasAgent(task) == task.agent # ZeroAddress

\* The five require statements of approveTask, in order: the revert reason of
\* the first that fails, or NoErr when all pass.
ApproveRequire(s, sender, taskId) ==
    LET task == s.tasks[taskId] IN
    IF ~TaskExists(s, taskId) THEN ErrNotFound
    ELSE IF ~OnlyEmployer(sender, task) THEN ErrEmployer
    ELSE IF ~IsSubmitted(task) THEN ErrNotSubmitted
    ELSE IF ~NotApproved(task) THEN ErrApproved
    ELSE IF ~HasAgent(task) THEN ErrNoAgent
    ELSE NoErr

ApproveAfterTransfer(task) == task

ApproveCompletedOnly(task) == [task EXCEPT !.isCompleted = TRUE]

ApproveClearsSubmitted(task) ==
    [task EXCEPT !.isApproved = TRUE, !.isCompleted = TRUE, !.isSubmitted = FALSE]

ApproveApprovedOnly(task) == [task EXCEPT !.isApproved = TRUE]

\* task.isApproved = true; task.isCompleted = true
Approve(task) == [task EXCEPT !.isApproved = TRUE, !.isCompleted = TRUE]

\* transfer() reverts at once when the ledger holds less than the amount.
CanPay(s, amount) == s.balance[This] >= amount

TransferOmitted(s, taskId) == s

TransferToEmployer(s, taskId) ==
    LET task == s.tasks[taskId] IN
    [s EXCEPT !.balance[This] = @ - task.reward,
              !.balance[task.employer] = @ + task.reward,
              !.paid[taskId] = Append(@, <<task.employer, task.reward>>)]

\* payable(task.agent).transfer(task.reward): the value moves, then the
\* recipient's code runs.
Transfer(s, taskId) ==
    LET task == s.tasks[taskId] IN
    [s EXCEPT !.balance[This] = @ - task.reward,
              !.balance[task.agent] = @ + task.reward,
              !.paid[taskId] = Append(@, <<task.agent, task.reward>>)]

TaskApprovedBySender(taskId, employer, agent, reward) ==
    <<"TaskApproved", taskId, employer, employer, reward>>

\* emit TaskApproved(taskId, msg.sender, task.agent, task.reward)
TaskApproved(taskId, employer, agent, reward) ==
    <<"TaskApproved", taskId, employer, agent, reward>>

\* send() with its result ignored: the value stays, the call goes on.
TransferFailedIgnored(before, now) ==
    [now EXCEPT !.balance = before.balance, !.paid = before.paid]

\* What a failed transfer leaves: the state the call started from.
TransferFailed(before, now) == before

\* approveTask up to the transfer: the requires, the two flags, the payment.
\* On success control is with the recipient.
ApproveBegin(s, sender, taskId) ==
    LET err == ApproveRequire(s, sender, taskId)
        s1 == [s EXCEPT !.tasks[taskId] = Approve(@)]
    IN IF err # NoErr THEN Reverted(s, err)
       ELSE IF ~CanPay(s1, s1.tasks[taskId].reward)
            THEN Reverted(TransferFailed(s, s1), ErrTransfer)
       ELSE Succeeded(Transfer(s1, taskId))

\* approveTask after the transfer returned.
ApproveEnd(s, sender, taskId) ==
    LET task == s.tasks[taskId] IN
    [s EXCEPT !.events[taskId] =
                 Append(@, TaskApproved(taskId, sender, task.agent, task.reward))]

\* ---------------------------------------------------------------- actions
Idle == stack = <<>>

CallCreateTask ==
    \E sender \in Addresses, value \in Values, description \in Descriptions :
        LET r == createTask(State, sender, value, description) IN
        /\ Idle
        /\ value <= balance[sender]
        /\ r.ok => nextTaskId < MaxTasks
        /\ Install(r.st)
        /\ last' = Completed("createTask", r)
        /\ UNCHANGED <<stack, page>>

CallSubmitTask ==
    \E sender \in Addresses, taskId \in TaskIds, submissionUrl \in Urls :
        LET r == submitTask(State, sender, taskId, submissionUrl) IN
        /\ Idle
        /\ Install(r.st)
        /\ last' = Completed("submitTask", r)
        /\ UNCHANGED <<stack, page>>

\* A call of approveTask: a transaction when no transfer is in flight,
\* otherwise a call made by the code of the recipient being paid.
CallApproveTask ==
    \E sender \in Addresses, taskId \in TaskIds :
        LET r == ApproveBegin(State, sender, taskId) IN
        /\ Len(stack) < MaxDepth
        /\ Install(r.st)
        /\ IF r.ok
           THEN /\ stack' = Append(stack, [taskId |-> taskId, sender |-> sender,
                                           before |-> State])
                /\ last' = [op |-> "transfer", ok |-> TRUE, err |-> NoErr]
           ELSE /\ UNCHANGED stack
                /\ last' = Completed("approveTask", r)
        /\ UNCHANGED page

Top == stack[Len(stack)]
Pop == SubSeq(stack, 1, Len(stack) - 1)

\* The recipient accepts the payment: transfer returns and approveTask finishes.
TransferReturns ==
    /\ ~Idle
    /\ Install(ApproveEnd(State, Top.sender, Top.taskId))
    /\ stack' = Pop
    /\ last' = [op |-> "approveTask", ok |-> TRUE, err |-> NoErr]
    /\ UNCHANGED page

\* The recipient rejects the payment: transfer reverts and so does approveTask.
TransferReverts ==
    /\ ~Idle
    /\ Install(TransferFailed(Top.before, State))
    /\ stack' = Pop
    /\ last' = [op |-> "approveTask", ok |-> FALSE, err |-> ErrTransfer]
    /\ UNCHANGED page

Next ==
    \/ CallCreateTask
    \/ CallSubmitTask
    \/ CallApproveTask
    \/ TransferReturns
    \/ TransferReverts

Spec == Init /\ [][Next]_<<vars, page>>

\* The state as of the last completed transaction.
Committed == IF Idle THEN State ELSE stack[1].before

\* ------------------------------------------------------- the page's refresh
\* The effect of [publicClient, forceRefresh] runs fetchAllTasks when the page
\* mounts and again whenever forceRefresh is incremented (a transaction of the
\* page was confirmed) or the client changes.  A run awaits getTotalTasks,
\* then tasks(i) for each i below the count, then calls setTasks; every await
\* is a step of its own and reads the ledger as of the last block.  The effect
\* has no cleanup: a run that was started earlier goes on.
NewRun == [pc |-> "count", taskCount |-> 0, i |-> 0, fetchedTasks |-> <<>>]

\* useEffect(() => { ... fetchAllTasks(); }, [publicClient, forceRefresh])
StartFetchAllTasks ==
    /\ Len(runs) < MaxRuns
    /\ runs' = Append(runs, NewRun)
    /\ forceRefresh' = IF runs = <<>> THEN forceRefresh ELSE forceRefresh + 1
    /\ UNCHANGED <<vars, shownTasks>>

\* const taskCountBigInt = await readContract(getTotalTasks);
\* if (!taskCountBigInt) return;   -- 0n is falsy: the run ends, nothing is set
ReadTotalTasks ==
    \E r \in 1..Len(runs) :
        LET taskCount == getTotalTasks(Committed) IN
        /\ runs[r].pc = "count"
        /\ runs' = [runs EXCEPT ![r].taskCount = taskCount,
                                ![r].pc = IF taskCount = 0 THEN "done" ELSE "read"]
        /\ UNCHANGED <<vars, forceRefresh, shownTasks>>

\* One turn of the loop: taskData = await readContract(tasks, [i]);
\* fetchedTasks.push(task).  After the last turn: setTasks(fetchedTasks).
ReadTaskOf(run) ==
    LET fetched == Append(run.fetchedTasks, Committed.tasks[run.i]) IN
    [run EXCEPT !.fetchedTasks = fetched,
                !.i = @ + 1,
                !.pc = IF run.i + 1 = run.taskCount THEN "done" ELSE "read"]

ReadTask ==
    \E r \in 1..Len(runs) :
        LET run == ReadTaskOf(runs[r]) IN
        /\ runs[r].pc = "read"
        /\ runs' = [runs EXCEPT ![r] = run]
        /\ shownTasks' = IF run.pc = "done" THEN run.fetchedTasks ELSE shownTasks
        /\ UNCHANGED <<vars, forceRefresh>>

\* The page while tasks are being created and submitted: ledger changes
\* enough for two reads taken at different times to differ.
\* catch (error): the read of tasks(i) failed; the loop goes on without it.
ReadTaskFailedOf(run) ==
    [run EXCEPT !.i = @ + 1,
                !.pc = IF run.i + 1 = run.taskCount THEN "done" ELSE "read"]

ReadTaskFails ==
    \E r \in 1..Len(runs) :
        LET run == ReadTaskFailedOf(runs[r]) IN
        /\ runs[r].pc = "read"
        /\ runs' = [runs EXCEPT ![r] = run]
        /\ shownTasks' = IF run.pc = "done" THEN run.fetchedTasks ELSE shownTasks
        /\ UNCHANGED <<vars, forceRefresh>>

NextPage ==
    \/ CallCreateTask
    \/ CallSubmitTask
    \/ StartFetchAllTasks
    \/ ReadTotalTasks
    \/ ReadTask
    \/ ReadTaskFails

SpecPage == Init /\ [][NextPage]_<<vars, page>>

\* -------------------------------------------------------------- front end
\* getTaskStatus of the page: the label shown for a task record read from the
\* ledger.  The labels are the page's Chinese labels, named here in English:
\* completed, approved, awaiting approval, in progress, open.
getTaskStatus(task) ==
    IF task.isCompleted THEN "completed"
    ELSE IF task.isApproved THEN "approved"
    ELSE IF task.isSubmitted THEN "awaiting approval"
    ELSE IF task.agent # ZeroAddress THEN "in progress"
    ELSE "open"

\* An address as the client library renders it: hexadecimal with mixed-case
\* checksum letters.
Checksum(a) ==
    IF a = "a1" THEN "0xA1" ELSE IF a = "a2" THEN "0xA2" ELSE "0x00"

\* String.prototype.toLowerCase on these renderings.
toLowerCase(str) ==
    IF str = "0xA1" THEN "0xa1" ELSE IF str = "0xA2" THEN "0xa2" ELSE str

\* `address` of useAccount() when no wallet is connected.
Undefined == "undefined"

\* address?.toLowerCase()
OptLower(address) == IF address = Undefined THEN Undefined ELSE toLowerCase(address)

\* The forms in which a wallet may report the connected account a.
WalletForms(a) == {Checksum(a), toLowerCase(Checksum(a))}

ButtonOfferedUnsubmitted(task, address) ==
    /\ ~task.isApproved
    /\ toLowerCase(Checksum(task.employer)) = OptLower(address)

\* The guard of the approve button in the list of the connected account's
\* tasks: task.isSubmitted && !task.isApproved &&
\* task.employer.toLowerCase() === address?.toLowerCase()
ButtonOffered(task, address) ==
    /\ task.isSubmitted
    /\ ~task.isApproved
    /\ toLowerCase(Checksum(task.employer)) = OptLower(address)

\* ------------------------------------------------------------------ claims
\* A createTask call the sender can make: the value is covered by the balance.
CanSend(sender, value) == value <= balance[sender]

\* The state a step leads to, as a record like State.
After ==
    [nextTaskId |-> nextTaskId', tasks |-> tasks', employerTasks |-> employerTasks',
     balance |-> balance', events |-> events', paid |-> paid']

\* C1: every successful createTask raises getTotalTasks() by exactly one, and
\* the id stored in the new record is the value getTotalTasks() had before.
C1_CreateAssignsNextId ==
    [][(last'.op = "createTask" /\ last'.ok) =>
          /\ getTotalTasks(After) = getTotalTasks(State) + 1
          /\ getTask(After, getTotalTasks(State)).ok
          /\ getTask(After, getTotalTasks(State)).task.id = getTotalTasks(State)]_vars

C1_Witness ==
    /\ last.op = "createTask" /\ last.ok
    /\ nextTaskId = 2 /\ tasks[1].id = 1 /\ tasks[0].id = 0

\* C2: right after a successful createTask(description) with value v by c the
\* new record has employer c, no agent, the description, reward v, an empty
\* submissionUrl and all three flags false, and the ledger's balance grew by v.
C2_EveryInput ==
    \A c \in Addresses, v \in Values, d \in Descriptions :
        LET r == createTask(State, c, v, d)
            new == r.st.tasks[nextTaskId]
        IN (CanSend(c, v) /\ r.ok) =>
              /\ new.employer = c
              /\ new.agent = ZeroAddress
              /\ new.description = d
              /\ new.reward = v
              /\ new.submissionUrl = ""
              /\ ~new.isSubmitted /\ ~new.isApproved /\ ~new.isCompleted
              /\ r.st.balance[This] = balance[This] + v

\* The same of the step taken: the value the ledger gained is the reward
\* stored, and the account that paid it is the employer stored.
C2_StepTaken ==
    (last'.op = "createTask" /\ last'.ok) =>
        LET new == tasks'[nextTaskId]
            v == balance'[This] - balance[This]
        IN /\ new.reward = v /\ v > 0
           /\ new.employer \in Addresses
           /\ balance'[new.employer] = balance[new.employer] - v
           /\ new.agent = ZeroAddress /\ new.description # ""
           /\ new.submissionUrl = ""
           /\ ~new.isSubmitted /\ ~new.isApproved /\ ~new.isCompleted

C2_CreateStoresRecord == [](C2_EveryInput) /\ [][C2_StepTaken]_vars

C2_Witness ==
    /\ last.op = "createTask" /\ last.ok
    /\ nextTaskId = 2
    /\ tasks[1].employer = "a2" /\ tasks[1].reward = 2 /\ tasks[1].description = "d"
    /\ tasks[0].reward = 1
    /\ balance[This] = 3

\* C3: createTask with value 0 (InvalidReward) or an empty description
\* (InvalidDescription) fails and leaves the count, the records, the employer
\* lists and every balance as they were.
C3_EveryInput ==
    \A c \in Addresses, v \in Values, d \in Descriptions :
        LET r == createTask(State, c, v, d) IN
        (CanSend(c, v) /\ (v = 0 \/ d = "")) =>
              /\ ~r.ok
              /\ r.err = IF v = 0 THEN ErrReward ELSE ErrDescription
              /\ getTotalTasks(r.st) = getTotalTasks(State)
              /\ r.st.tasks = tasks
              /\ r.st.employerTasks = employerTasks
              /\ r.st.balance = balance

C3_StepTaken ==
    (last'.op = "createTask" /\ ~last'.ok) =>
        /\ last'.err \in {ErrReward, ErrDescription}
        /\ UNCHANGED <<nextTaskId, tasks, employerTasks, balance, events>>

C3_InvalidCreateRejected == [](C3_EveryInput) /\ [][C3_StepTaken]_vars

C3_Witness ==
    /\ last.op = "createTask" /\ ~last.ok /\ last.err = ErrReward
    /\ nextTaskId = 1 /\ balance[This] = tasks[0].reward

\* The notifications of one kind that state s holds for task t.
Notifications(s, t, kind) == SelectSeq(s.events[t], LAMBDA e : e[1] = kind)

Submissions(t) == Notifications(State, t, "TaskSubmitted")

\* C4: on an open task a submitTask with a non-empty URL succeeds; once one has
\* succeeded every submitTask on that task, by any caller and with any URL,
\* fails with AlreadyClaimed, and agent and submissionUrl stay those of the
\* first successful submitter.
C4_OpenTaskAccepts ==
    \A t \in TaskIds, c \in Addresses, u \in Urls :
        LET r == submitTask(State, c, t, u) IN
        /\ (TaskExists(State, t) /\ Submissions(t) = <<>> /\ u # "") =>
              r.ok /\ r.st.tasks[t].agent = c /\ r.st.tasks[t].submissionUrl = u
        /\ (TaskExists(State, t) /\ Submissions(t) # <<>>) =>
              /\ ~r.ok /\ r.err = ErrTaken /\ r.st = State
              /\ Len(Submissions(t)) = 1
              /\ tasks[t].agent = Submissions(t)[1][3]
              /\ tasks[t].submissionUrl = Submissions(t)[1][4]

C4_AgentKept ==
    \A t \in TaskIds :
        tasks[t].agent # ZeroAddress =>
            /\ tasks'[t].agent = tasks[t].agent
            /\ tasks'[t].submissionUrl = tasks[t].submissionUrl

C4_FirstSubmitterWins == [](C4_OpenTaskAccepts) /\ [][C4_AgentKept]_vars

C4_Witness ==
    /\ last.op = "submitTask" /\ ~last.ok /\ last.err = ErrTaken
    /\ nextTaskId = 1
    /\ tasks[0].isApproved /\ tasks[0].agent # tasks[0].employer

RECURSIVE SumOver(_, _)
SumOver(S, f) ==
    IF S = {} THEN 0
    ELSE LET x == CHOOSE y \in S : TRUE IN f[x] + SumOver(S \ {x}, f)

\* The amount paid out of the ledger for task t, and to account a, in state s.
PaidOut(s, t) ==
    SumOver(1..Len(s.paid[t]), [i \in 1..Len(s.paid[t]) |-> s.paid[t][i][2]])

PaidTo(s, a) ==
    SumOver(TaskIds,
            [t \in TaskIds |->
               SumOver({i \in 1..Len(s.paid[t]) : s.paid[t][i][1] = a},
                       [i \in 1..Len(s.paid[t]) |-> s.paid[t][i][2]])])

\* The rewards of the created tasks in S.
Escrowed(S) ==
    SumOver({t \in S : TaskExists(State, t)}, [t \in TaskIds |-> tasks[t].reward])

\* C5: for every task the amount paid out of the ledger is 0 while isApproved
\* is false and exactly the reward once it is true, in one payment to the
\* task's agent; funds leave the ledger only at the transfer of approveTask,
\* so every balance is what the creations and these payments make it.
C5_PaidOnce ==
    /\ \A t \in TaskIds :
          /\ paid[t] = IF tasks[t].isApproved
                       THEN << <<tasks[t].agent, tasks[t].reward>> >>
                       ELSE <<>>
          /\ PaidOut(State, t) = IF tasks[t].isApproved THEN tasks[t].reward ELSE 0
    /\ balance[This] = Escrowed(TaskIds) - SumOver(TaskIds, [t \in TaskIds |-> PaidOut(State, t)])
    /\ \A a \in Addresses :
          balance[a] = InitBalance - Escrowed({t \in TaskIds : tasks[t].employer = a})
                       + PaidTo(State, a)

C5_OnlyApprovePays ==
    balance'[This] < balance[This] =>
        /\ last'.op = "transfer"
        /\ \E t \in TaskIds :
              /\ ApproveRequire(State, tasks[t].employer, t) = NoErr
              /\ tasks'[t].isApproved
              /\ balance[This] - balance'[This] = tasks[t].reward
              /\ \A u \in TaskIds \ {t} : paid'[u] = paid[u]

C5_RewardPaidOnceAtApproval == [](C5_PaidOnce) /\ [][C5_OnlyApprovePays]_vars

C5_Witness ==
    /\ Idle /\ last.op = "approveTask" /\ last.ok
    /\ nextTaskId = 2
    /\ tasks[0].isApproved /\ tasks[0].reward = 2 /\ tasks[0].agent # tasks[0].employer
    /\ balance[tasks[0].agent] = InitBalance + 2 - Escrowed({1})
    /\ ~tasks[1].isApproved /\ tasks[1].employer = tasks[0].agent
    /\ balance[This] = tasks[1].reward

Approvals(t) == Notifications(State, t, "TaskApproved")

\* C6: once approveTask(taskId) has succeeded, every approveTask(taskId) by the
\* employer fails with AlreadyApproved and changes neither the records nor
\* any balance.
C6_EveryInput ==
    \A t \in TaskIds :
        (TaskExists(State, t) /\ Approvals(t) # <<>>) =>
            LET r == ApproveBegin(State, tasks[t].employer, t) IN
            ~r.ok /\ r.err = ErrApproved /\ r.st = State

C6_StepTaken ==
    (last'.op = "approveTask" /\ last'.err = ErrApproved) =>
        UNCHANGED <<nextTaskId, tasks, employerTasks, balance, events, paid, stack>>

C6_SecondApprovalRejected == [](C6_EveryInput) /\ [][C6_StepTaken]_vars

C6_Witness ==
    /\ Idle /\ last.op = "approveTask" /\ ~last.ok /\ last.err = ErrApproved
    /\ nextTaskId = 2 /\ Approvals(0) # <<>> /\ ~tasks[1].isApproved
    /\ balance[This] >= tasks[0].reward

\* C7: approveTask on an existing task by anyone but its employer fails with
\* Unauthorized in every phase of the task and changes nothing; the agent is
\* such a caller unless it is the employer too.
C7_EveryInput ==
    \A t \in TaskIds, c \in Addresses :
        (TaskExists(State, t) /\ c # tasks[t].employer) =>
            LET r == ApproveBegin(State, c, t) IN
            ~r.ok /\ r.err = ErrEmployer /\ r.st = State

C7_StepTaken ==
    (last'.op = "approveTask" /\ last'.err = ErrEmployer) =>
        UNCHANGED <<nextTaskId, tasks, employerTasks, balance, events, paid, stack>>

C7_OnlyEmployerApproves == [](C7_EveryInput) /\ [][C7_StepTaken]_vars

C7_Witness ==
    /\ Idle /\ last.op = "approveTask" /\ ~last.ok /\ last.err = ErrEmployer
    /\ nextTaskId = 1
    /\ tasks[0].isSubmitted /\ ~tasks[0].isApproved
    /\ tasks[0].agent # tasks[0].employer

\* C8: approveTask by the employer on a task without a submission fails with
\* NotSubmitted; no balance changes and isApproved and isCompleted stay false.
C8_EveryInput ==
    \A t \in TaskIds :
        (TaskExists(State, t) /\ ~tasks[t].isSubmitted /\ tasks[t].agent = ZeroAddress) =>
            LET r == ApproveBegin(State, tasks[t].employer, t) IN
            /\ ~r.ok /\ r.err = ErrNotSubmitted
            /\ r.st.balance = balance
            /\ ~r.st.tasks[t].isApproved /\ ~r.st.tasks[t].isCompleted

C8_StepTaken ==
    (last'.op = "approveTask" /\ last'.err = ErrNotSubmitted) =>
        UNCHANGED <<tasks, balance, paid, stack>>

C8_UnsubmittedNotApproved == [](C8_EveryInput) /\ [][C8_StepTaken]_vars

C8_Witness ==
    /\ Idle /\ last.op = "approveTask" /\ ~last.ok /\ last.err = ErrNotSubmitted
    /\ nextTaskId = 1 /\ tasks[0].agent = ZeroAddress
    /\ balance[This] = tasks[0].reward

\* C9: when the transfer inside approveTask fails the call fails as a whole:
\* isApproved and isCompleted are false afterwards, the ledger holds the reward
\* again, there is no approval notification, and the same approveTask can be
\* made again.  In no state is isApproved true with the reward not paid out.
C9_StepTaken ==
    (last'.op = "approveTask" /\ last'.err = ErrTransfer /\ Len(stack') < Len(stack)) =>
        LET t == Top.taskId IN
        /\ ~last'.ok
        /\ ~tasks'[t].isApproved /\ ~tasks'[t].isCompleted
        /\ paid'[t] = <<>>
        /\ balance'[This] >= balance[This] + tasks[t].reward
        /\ balance'[tasks[t].agent] <= balance[tasks[t].agent] - tasks[t].reward
        /\ Notifications(After, t, "TaskApproved") = <<>>
        /\ ApproveBegin(After, Top.sender, t).ok

C9_ApprovedIsPaid ==
    \A t \in TaskIds : tasks[t].isApproved => PaidOut(State, t) = tasks[t].reward /\ tasks[t].reward > 0

C9_FailedTransferReverts == [](C9_ApprovedIsPaid) /\ [][C9_StepTaken]_vars

C9_Witness ==
    /\ Idle /\ last.op = "approveTask" /\ ~last.ok /\ last.err = ErrTransfer
    /\ nextTaskId = 1
    /\ tasks[0].isSubmitted /\ ~tasks[0].isApproved /\ ~tasks[0].isCompleted
    /\ balance[This] = tasks[0].reward /\ Approvals(0) = <<>>

\* What holds of a task whose transfer is in flight, whoever re-enters.
InFlight(i, errOf(_, _)) ==
    LET t == stack[i].taskId IN
    /\ tasks[t].isApproved /\ tasks[t].isCompleted
    /\ Len(paid[t]) = 1
    /\ \A c \in Addresses :
          LET r == ApproveBegin(State, c, t) IN
          ~r.ok /\ r.st = State /\ r.err = errOf(c, t)

AlwaysApproved(c, t) == ErrApproved
ByCaller(c, t) == IF c = tasks[t].employer THEN ErrApproved ELSE ErrEmployer

\* C10 as stated: while the transfer of approveTask(taskId) is in flight both
\* flags are true, every re-entered approveTask(taskId) fails with
\* AlreadyApproved, and no reward is paid twice.
C10_AsStated ==
    /\ \A i \in 1..Len(stack) : InFlight(i, AlwaysApproved)
    /\ \A t \in TaskIds : Len(paid[t]) <= 1

\* C10, amended: while the transfer of approveTask(taskId) is in flight both
\* flags are true, every re-entered approveTask(taskId) fails, with
\* AlreadyApproved when the employer makes it and with Unauthorized when anyone
\* else does, and no reward is paid twice.
C10_ReentryRejected ==
    /\ \A i \in 1..Len(stack) : InFlight(i, ByCaller)
    /\ \A t \in TaskIds : Len(paid[t]) <= 1

C10_Witness ==
    /\ Len(stack) = 1 /\ stack[1].taskId = 0
    /\ last.op = "approveTask" /\ ~last.ok /\ last.err = ErrApproved
    /\ nextTaskId = 2 /\ ~tasks[1].isApproved
    /\ balance[This] >= tasks[0].reward

\* The created tasks.
Created == {t \in TaskIds : TaskExists(State, t)}

\* C11: in every state the ledger's balance is the sum of the rewards of the
\* created tasks whose isApproved is false.
C11_LedgerHoldsOpenRewards ==
    balance[This] = Escrowed({t \in TaskIds : ~tasks[t].isApproved})

C11_Witness ==
    /\ Idle /\ last.op = "approveTask" /\ last.ok
    /\ nextTaskId = 2
    /\ tasks[0].isApproved /\ tasks[0].reward = 1
    /\ ~tasks[1].isApproved /\ tasks[1].reward = 2
    /\ balance[This] = 2

\* C12: there is no refund path.  The reward of a task that is not approved
\* is in the ledger and nothing was paid for it; an account's balance rises
\* only when it is the agent of a task being approved, by that task's reward,
\* so an employer gets a reward back only as the agent of its own task.
C12_UnapprovedHeld ==
    \A t \in Created :
        ~tasks[t].isApproved => paid[t] = <<>> /\ balance[This] >= tasks[t].reward

C12_OnlyAgentGains ==
    \A a \in Addresses :
        balance'[a] > balance[a] =>
            \E t \in Created :
                /\ tasks[t].agent = a
                /\ ~tasks[t].isApproved /\ tasks'[t].isApproved
                /\ ApproveRequire(State, tasks[t].employer, t) = NoErr
                /\ balance'[a] - balance[a] = tasks[t].reward

C12_NoRefundPath == [](C12_UnapprovedHeld) /\ [][C12_OnlyAgentGains]_vars

C12_Witness ==
    /\ Idle /\ last.op = "approveTask" /\ last.ok
    /\ nextTaskId = 2
    /\ tasks[0].isApproved /\ tasks[0].agent = tasks[0].employer
    /\ tasks[1].isSubmitted /\ ~tasks[1].isApproved
    /\ tasks[1].employer # tasks[0].employer
    /\ balance[tasks[1].employer] = InitBalance - tasks[1].reward
    /\ balance[tasks[0].employer] = InitBalance
    /\ balance[This] = tasks[1].reward

\* C13: for every created task isApproved implies isSubmitted and isCompleted
\* implies isApproved.
C13_FlagsOrdered ==
    \A t \in Created :
        /\ tasks[t].isApproved => tasks[t].isSubmitted
        /\ tasks[t].isCompleted => tasks[t].isApproved

C13_Witness ==
    /\ Idle /\ last.op = "approveTask" /\ last.ok
    /\ nextTaskId = 2
    /\ tasks[0].isSubmitted /\ ~tasks[0].isApproved /\ ~tasks[0].isCompleted
    /\ tasks[1].isSubmitted /\ tasks[1].isApproved /\ tasks[1].isCompleted

\* C14: for every created task agent is address(0) exactly when isSubmitted is
\* false, and submissionUrl is empty exactly then; agent changes once at most,
\* from address(0), in a successful submitTask.
C14_AgentIffSubmitted ==
    \A t \in Created :
        /\ (tasks[t].agent = ZeroAddress) <=> ~tasks[t].isSubmitted
        /\ (tasks[t].submissionUrl = "") <=> ~tasks[t].isSubmitted

C14_AgentSetBySubmit ==
    \A t \in TaskIds :
        tasks'[t].agent # tasks[t].agent =>
            /\ tasks[t].agent = ZeroAddress
            /\ last'.op = "submitTask" /\ last'.ok
            /\ tasks'[t].isSubmitted

C14_ClaimIsSubmission == [](C14_AgentIffSubmitted) /\ [][C14_AgentSetBySubmit]_vars

C14_Witness ==
    /\ last.op = "submitTask" /\ last.ok
    /\ nextTaskId = 2
    /\ tasks[0].agent = ZeroAddress /\ ~tasks[0].isSubmitted /\ tasks[0].submissionUrl = ""
    /\ tasks[1].agent = "a2" /\ tasks[1].isSubmitted /\ tasks[1].submissionUrl = "u"

\* The state as of the transaction a step completes, or as Committed when the
\* step completes none.
CommittedAfter == IF stack' = <<>> THEN After ELSE stack'[1].before

\* Open, Submitted, Approved/Completed.
Phase(task) ==
    IF task.isApproved /\ task.isCompleted THEN 2 ELSE IF task.isSubmitted THEN 1 ELSE 0

\* C15: from one transaction to the next each of isSubmitted, isApproved and
\* isCompleted, once true, stays true, and the phase of a task never goes
\* back.
C15_Step ==
    \A t \in TaskIds :
        LET a == Committed.tasks[t]
            b == CommittedAfter.tasks[t]
        IN /\ a.isSubmitted => b.isSubmitted
           /\ a.isApproved => b.isApproved
           /\ a.isCompleted => b.isCompleted
           /\ Phase(a) <= Phase(b)

C15_FlagsMonotonic == [][C15_Step]_vars

C15_Witness ==
    /\ Idle /\ last.op = "createTask" /\ last.ok
    /\ nextTaskId = 2
    /\ tasks[0].isSubmitted /\ tasks[0].isApproved /\ tasks[0].isCompleted
    /\ ~tasks[1].isSubmitted

\* C16: what getTask returns as id, employer, description and reward of a
\* created task never changes, nor do agent and submissionUrl once the task is
\* submitted, whatever step is taken on this or another task.
C16_Step ==
    \A t \in TaskIds :
        LET a == getTask(State, t)
            b == getTask(After, t)
        IN a.ok =>
             /\ b.ok
             /\ b.task.id = a.task.id
             /\ b.task.employer = a.task.employer
             /\ b.task.description = a.task.description
             /\ b.task.reward = a.task.reward
             /\ a.task.isSubmitted =>
                   /\ b.task.agent = a.task.agent
                   /\ b.task.submissionUrl = a.task.submissionUrl

C16_FieldsImmutable == [][C16_Step]_vars

C16_Witness ==
    /\ Idle /\ last.op = "submitTask" /\ last.ok
    /\ nextTaskId = 2
    /\ tasks[0] = [id |-> 0, employer |-> "a1", agent |-> "a2", description |-> "d",
                   reward |-> 2, submissionUrl |-> "u", isSubmitted |-> TRUE,
                   isApproved |-> TRUE, isCompleted |-> TRUE]
    /\ tasks[1].isSubmitted /\ tasks[1].agent = "a1" /\ tasks[1].reward = 1

\* C17: a failing createTask, submitTask or approveTask leaves the records, the
\* count, the employer lists, every balance and the notifications as they were
\* before the call.
C17_EveryInput ==
    /\ \A c \in Addresses, v \in Values, d \in Descriptions :
          LET r == createTask(State, c, v, d) IN ~r.ok => r.st = State
    /\ \A c \in Addresses, t \in TaskIds, u \in Urls :
          LET r == submitTask(State, c, t, u) IN ~r.ok => r.st = State
    /\ \A c \in Addresses, t \in TaskIds :
          LET r == ApproveBegin(State, c, t) IN ~r.ok => r.st = State

C17_StepTaken ==
    (last'.op \in {"createTask", "submitTask", "approveTask"} /\ ~last'.ok) =>
        IF Len(stack') < Len(stack)
        THEN /\ After = Top.before
             /\ Len(stack) = 1 => After = Committed
        ELSE After = State /\ stack' = stack

C17_FailureChangesNothing == [](C17_EveryInput) /\ [][C17_StepTaken]_vars

C17_Witness ==
    /\ Idle /\ last.op = "approveTask" /\ ~last.ok /\ last.err = ErrTransfer
    /\ nextTaskId = 2
    /\ tasks[0].isSubmitted /\ ~tasks[0].isApproved
    /\ tasks[1].isSubmitted /\ ~tasks[1].isApproved
    /\ balance[This] = tasks[0].reward + tasks[1].reward
    /\ Approvals(0) = <<>> /\ Approvals(1) = <<>>

\* C18: submitTask(taskId, url) fails with TaskNotFound when taskId >=
\* getTotalTasks(), otherwise with AlreadyClaimed when agent is set, otherwise
\* with EmptySubmission when url is empty, and succeeds otherwise.
C18_SubmitErrorOrder ==
    \A c \in Addresses, t \in TaskIds, u \in Urls :
        LET r == submitTask(State, c, t, u) IN
        IF t >= getTotalTasks(State) THEN ~r.ok /\ r.err = ErrNotFound
        ELSE IF tasks[t].agent # ZeroAddress THEN ~r.ok /\ r.err = ErrTaken
        ELSE IF u = "" THEN ~r.ok /\ r.err = ErrUrl
        ELSE r.ok /\ r.err = NoErr

C18_Witness ==
    /\ last.op = "submitTask" /\ ~last.ok /\ last.err = ErrTaken
    /\ nextTaskId = 1 /\ tasks[0].agent = "a1"
    /\ submitTask(State, "a2", 0, "").err = ErrTaken
    /\ submitTask(State, "a2", 1, "").err = ErrNotFound

\* C19: getTask(id) fails, with TaskNotFound, exactly when id >=
\* getTotalTasks(); a getTask(id) that succeeds succeeds after every step, and
\* getTotalTasks() never decreases.
C19_NotFoundIffOutOfRange ==
    \A t \in TaskIds :
        /\ getTask(State, t).ok <=> t < getTotalTasks(State)
        /\ ~getTask(State, t).ok => getTask(State, t).err = ErrNotFound

C19_Step ==
    /\ getTotalTasks(After) >= getTotalTasks(State)
    /\ \A t \in TaskIds : getTask(State, t).ok => getTask(After, t).ok

C19_TasksPersist == [](C19_NotFoundIffOutOfRange) /\ [][C19_Step]_vars

C19_Witness ==
    /\ last.op = "createTask" /\ last.ok
    /\ getTotalTasks(State) = 2
    /\ getTask(State, 0).ok /\ getTask(State, 1).ok /\ ~getTask(State, 2).ok
    /\ tasks[0].isApproved

\* The account the creation notification of task t names.
Creator(t) == Notifications(State, t, "TaskCreated")[1][3]

\* C20: getEmployerTasks(addr) is the ids of the tasks addr created, each
\* once, in creation order, hence strictly increasing; only a successful
\* createTask changes a list, and only its sender's.
C20_ListIsCreatedIds ==
    \A a \in Addresses :
        LET l == getEmployerTasks(State, a) IN
        /\ \A i, j \in 1..Len(l) : i < j => l[i] < l[j]
        /\ {l[i] : i \in 1..Len(l)} =
              {t \in Created : tasks[t].employer = a /\ Creator(t) = a}
        /\ \A t \in Created : Creator(t) = tasks[t].employer

C20_Step ==
    employerTasks' # employerTasks =>
        /\ last'.op = "createTask" /\ last'.ok
        /\ \E a \in Addresses :
              /\ employerTasks' = [employerTasks EXCEPT ![a] = Append(@, nextTaskId)]
              /\ tasks'[nextTaskId].employer = a

C20_EmployerListInOrder == [](C20_ListIsCreatedIds) /\ [][C20_Step]_vars

C20_Witness ==
    /\ Idle /\ last.op = "approveTask" /\ last.ok
    /\ getEmployerTasks(State, "a1") = <<0, 1>>
    /\ getEmployerTasks(State, "a2") = <<>>
    /\ tasks[0].isApproved /\ tasks[1].isSubmitted

\* The tasks whose approveTask has its transfer in flight.
InFlightTasks == {stack[i].taskId : i \in 1..Len(stack)}

\* The notifications the record of task t accounts for: one per operation that
\* succeeded on it, with the values the record stores.
Log(t) ==
    LET task == tasks[t] IN
    IF ~TaskExists(State, t) THEN <<>>
    ELSE <<<<"TaskCreated", t, task.employer, task.reward, task.description>>>>
         \o (IF task.isSubmitted
             THEN <<<<"TaskSubmitted", t, task.agent, task.submissionUrl>>>> ELSE <<>>)
         \o (IF task.isApproved /\ t \notin InFlightTasks
             THEN <<<<"TaskApproved", t, task.employer, task.agent, task.reward>>>> ELSE <<>>)

Kinds(t) == [i \in 1..Len(events[t]) |-> events[t][i][1]]

\* C21: each successful createTask, submitTask and approveTask emits exactly
\* one notification of its kind with the values stored in the record, a failing
\* call emits none, and the notifications of a task are a prefix of Created,
\* Submitted, Approved.
C21_LogMatchesRecord ==
    \A t \in TaskIds :
        /\ events[t] = Log(t)
        /\ Kinds(t) = SubSeq(<<"TaskCreated", "TaskSubmitted", "TaskApproved">>,
                             1, Len(events[t]))

C21_StepTaken ==
    /\ (last'.op = "createTask" /\ last'.ok) =>
          LET new == tasks'[nextTaskId] IN
          events' = [events EXCEPT ![nextTaskId] =
                       Append(@, <<"TaskCreated", nextTaskId, new.employer, new.reward,
                                             new.description>>)]
    /\ (last'.op = "submitTask" /\ last'.ok) =>
          \E t \in TaskIds :
              /\ tasks[t] # tasks'[t]
              /\ events' = [events EXCEPT ![t] =
                              Append(@, <<"TaskSubmitted", t, tasks'[t].agent,
                                                      tasks'[t].submissionUrl>>)]
    /\ (last'.op = "approveTask" /\ last'.ok) =>
          LET t == Top.taskId IN
          events' = [events EXCEPT ![t] =
                       Append(@, <<"TaskApproved", t, tasks'[t].employer, tasks'[t].agent,
                                              tasks'[t].reward>>)]
    /\ last'.op = "transfer" => events' = events
    /\ ~last'.ok =>
          events' = IF Len(stack') < Len(stack) THEN Top.before.events ELSE events

C21_OneNotificationEach == [](C21_LogMatchesRecord) /\ [][C21_StepTaken]_vars

C21_Witness ==
    /\ Idle /\ last.op = "approveTask" /\ last.ok
    /\ events[0] = <<<<"TaskCreated", 0, "a1", 2, "d">>, <<"TaskSubmitted", 0, "a2", "u">>,
                     <<"TaskApproved", 0, "a1", "a2", 2>>>>
    /\ events[1] = <<<<"TaskCreated", 1, "a2", 1, "d">>>>

\* C22: on an open task a submitTask by the task's own employer with a
\* non-empty URL succeeds and makes the employer the agent, and an approveTask
\* by that employer then succeeds and pays the reward back to the employer.
C22_EveryInput ==
    \A t \in TaskIds :
        LET e == tasks[t].employer
            r1 == submitTask(State, e, t, "u")
            r2 == ApproveBegin(r1.st, e, t)
            s3 == ApproveEnd(r2.st, e, t)
        IN (TaskExists(State, t) /\ tasks[t].agent = ZeroAddress) =>
              /\ r1.ok /\ r1.st.tasks[t].agent = e /\ r1.st.tasks[t].isSubmitted
              /\ r2.ok /\ s3.tasks[t].isApproved
              /\ s3.balance[e] = balance[e] + tasks[t].reward
              /\ s3.balance[This] = balance[This] - tasks[t].reward
              /\ s3.paid[t] = <<<<e, tasks[t].reward>>>>

\* The same of the steps taken: an approveTask of a task whose agent is its
\* employer pays the caller.
C22_StepTaken ==
    (last'.op = "transfer" /\ tasks'[stack'[Len(stack')].taskId].agent
                                = stack'[Len(stack')].sender) =>
        LET f == stack'[Len(stack')] IN
        /\ balance'[f.sender] = balance[f.sender] + tasks[f.taskId].reward
        /\ balance'[This] = balance[This] - tasks[f.taskId].reward

C22_SelfDealingPossible == [](C22_EveryInput) /\ [][C22_StepTaken]_vars

C22_Witness ==
    /\ Idle /\ last.op = "approveTask" /\ last.ok
    /\ nextTaskId = 1
    /\ tasks[0].employer = "a1" /\ tasks[0].agent = "a1" /\ tasks[0].reward = 2
    /\ tasks[0].isApproved
    /\ paid[0] = <<<<"a1", 2>>>>
    /\ balance["a1"] = InitBalance /\ balance[This] = 0

\* C23: a successful submitTask(taskId, url) changes only agent, submissionUrl
\* and isSubmitted of task taskId; the task's other fields, the other records,
\* the count, the employer lists and every balance stay as they were.
C23_EveryInput ==
    \A c \in Addresses, t \in TaskIds, u \in Urls :
        LET r == submitTask(State, c, t, u) IN
        r.ok =>
            /\ r.st.tasks = [tasks EXCEPT ![t].agent = c, ![t].submissionUrl = u,
                                          ![t].isSubmitted = TRUE]
            /\ r.st.nextTaskId = nextTaskId
            /\ r.st.employerTasks = employerTasks
            /\ r.st.balance = balance
            /\ r.st.paid = paid

C23_StepTaken ==
    (last'.op = "submitTask" /\ last'.ok) =>
        /\ UNCHANGED <<nextTaskId, employerTasks, balance, paid, stack>>
        /\ \E t \in TaskIds :
              /\ TaskExists(State, t)
              /\ tasks' = [tasks EXCEPT ![t].agent = tasks'[t].agent,
                                        ![t].submissionUrl = tasks'[t].submissionUrl,
                                        ![t].isSubmitted = TRUE]
              /\ tasks' # tasks

C23_SubmitFrame == [](C23_EveryInput) /\ [][C23_StepTaken]_vars

C23_Witness ==
    /\ last.op = "submitTask" /\ last.ok
    /\ nextTaskId = 2
    /\ tasks[0] = [id |-> 0, employer |-> "a1", agent |-> ZeroAddress,
                   description |-> "d", reward |-> 1, submissionUrl |-> "",
                   isSubmitted |-> FALSE, isApproved |-> FALSE, isCompleted |-> FALSE]
    /\ tasks[1] = [id |-> 1, employer |-> "a2", agent |-> "a1",
                   description |-> "d", reward |-> 2, submissionUrl |-> "u",
                   isSubmitted |-> TRUE, isApproved |-> FALSE, isCompleted |-> FALSE]
    /\ balance[This] = 3
    /\ employerTasks = [a \in Addresses |-> IF a = "a1" THEN <<0>> ELSE <<1>>]

\* The places (employer, index) where id i stands in the employer task lists.
Listed(i) ==
    {p \in Addresses \X (1..MaxTasks) :
        p[2] <= Len(employerTasks[p[1]]) /\ employerTasks[p[1]][p[2]] = i}

\* C24: for every i < getTotalTasks() the record under key i has id i and a
\* non-zero employer, and i stands exactly once in the employer task lists, in
\* the list of that employer; every key >= getTotalTasks() holds a record with
\* all fields default.
C24_IdsUniqueAndDense ==
    /\ \A a \in Addresses : Len(employerTasks[a]) <= MaxTasks
    /\ \A i \in TaskIds :
          IF i < getTotalTasks(State)
          THEN /\ tasks[i].id = i
               /\ tasks[i].employer # ZeroAddress
               /\ Cardinality(Listed(i)) = 1
               /\ \A p \in Listed(i) : p[1] = tasks[i].employer
          ELSE /\ tasks[i] = DefaultTask
               /\ Listed(i) = {}

C24_Witness ==
    /\ last.op = "createTask" /\ last.ok
    /\ getTotalTasks(State) = 2
    /\ tasks[0].id = 0 /\ tasks[1].id = 1
    /\ tasks[0].employer = "a2" /\ tasks[1].employer = "a2"
    /\ employerTasks["a2"] = <<0, 1>> /\ employerTasks["a1"] = <<>>
    /\ tasks[2] = DefaultTask
    /\ tasks[0].isSubmitted

\* C25: in no reachable state does approveTask pass the existence, employer,
\* isSubmitted and not-approved checks and then fail with NoAgent: for no
\* caller and task is NoAgent the outcome, and no call made has failed with it.
C25_NoAgentCheckRedundant ==
    /\ \A c \in Addresses, t \in TaskIds :
          /\ ApproveRequire(State, c, t) # ErrNoAgent
          /\ ApproveBegin(State, c, t).err # ErrNoAgent
          /\ (/\ TaskExists(State, t) /\ c = tasks[t].employer
              /\ tasks[t].isSubmitted /\ ~tasks[t].isApproved)
                 => tasks[t].agent # ZeroAddress /\ ApproveRequire(State, c, t) = NoErr
    /\ last.err # ErrNoAgent

C25_Witness ==
    /\ last.op = "transfer" /\ Len(stack) = 1 /\ stack[1].taskId = 1
    /\ stack[1].sender = "a2"
    /\ tasks[0].employer = "a1" /\ tasks[0].isSubmitted /\ ~tasks[0].isApproved
    /\ ApproveRequire(State, "a1", 0) = NoErr
    /\ ApproveRequire(State, "a2", 0) = ErrEmployer

\* C26: in every state and for every task isApproved equals isCompleted, and
\* the status the page shows for the record is never 'approved' nor 'in
\* progress': it is 'completed', 'awaiting approval' or 'open', as the flags
\* say.
C26_StatusBranchesUnreachable ==
    \A t \in TaskIds :
        /\ tasks[t].isApproved = tasks[t].isCompleted
        /\ getTaskStatus(tasks[t]) \notin {"approved", "in progress"}
        /\ getTaskStatus(tasks[t]) =
              IF tasks[t].isApproved THEN "completed"
              ELSE IF tasks[t].agent # ZeroAddress THEN "awaiting approval"
              ELSE "open"

C26_Witness ==
    /\ Idle /\ last.op = "approveTask" /\ last.ok
    /\ nextTaskId = 2
    /\ getTaskStatus(tasks[0]) = "awaiting approval"
    /\ getTaskStatus(tasks[1]) = "completed"
    /\ getTaskStatus(tasks[2]) = "open"

\* C27: in every state the ledger's balance is at least the reward of every
\* task that is submitted and not approved, so approveTask by the employer on
\* such a task gets as far as handing the reward to the agent; an approveTask
\* fails at the transfer only when the recipient rejects it.
C27_Funded ==
    \A t \in TaskIds :
        (TaskExists(State, t) /\ tasks[t].isSubmitted /\ ~tasks[t].isApproved) =>
            LET r == ApproveBegin(State, tasks[t].employer, t) IN
            /\ balance[This] >= tasks[t].reward
            /\ CanPay(State, tasks[t].reward)
            /\ r.ok
            /\ r.st.balance[tasks[t].agent] = balance[tasks[t].agent] + tasks[t].reward

C27_StepTaken ==
    last'.err = ErrTransfer => Len(stack') < Len(stack)

C27_ApproveNeverUnderfunded == [](C27_Funded) /\ [][C27_StepTaken]_vars

C27_Witness ==
    /\ Idle /\ last.op = "approveTask" /\ last.ok
    /\ nextTaskId = 2
    /\ tasks[0].isApproved /\ tasks[0].reward = 1
    /\ tasks[1].isSubmitted /\ ~tasks[1].isApproved /\ tasks[1].reward = 2
    /\ balance[This] = 2
    /\ ApproveBegin(State, tasks[1].employer, 1).ok

\* C28: for every task the page lists and every connected account, the
\* approve button is offered exactly when approveTask(task.id) called by that
\* account in this state passes all of its precondition checks; with no
\* account connected it is not offered.
C28_ButtonIffApprovable ==
    \A i \in TaskIds :
        i < getTotalTasks(State) =>
            LET task == tasks[i] IN
            /\ \A a \in Addresses : \A w \in WalletForms(a) :
                  /\ ButtonOffered(task, w)
                        <=> ApproveRequire(State, a, task.id) = NoErr
                  /\ ButtonOffered(task, w)
                        <=> (task.isSubmitted /\ ~task.isApproved /\ task.employer = a)
            /\ ~ButtonOffered(task, Undefined)

C28_Witness ==
    /\ Idle /\ last.op = "submitTask" /\ last.ok
    /\ nextTaskId = 2
    /\ tasks[0].employer = "a1" /\ tasks[0].isApproved
    /\ tasks[1].employer = "a1" /\ tasks[1].isSubmitted /\ ~tasks[1].isApproved
    /\ ButtonOffered(tasks[1], "0xA1") /\ ButtonOffered(tasks[1], "0xa1")
    /\ ~ButtonOffered(tasks[1], "0xA2") /\ ~ButtonOffered(tasks[1], Undefined)
    /\ ~ButtonOffered(tasks[0], "0xA1")

\* Every run of fetchAllTasks that was started has finished, having read a
\* count above zero and every task below it, and so having called setTasks.
AllFinished ==
    /\ runs # <<>>
    /\ \A r \in 1..Len(runs) :
          /\ runs[r].pc = "done"
          /\ runs[r].taskCount > 0
          /\ Len(runs[r].fetchedTasks) = runs[r].taskCount

\* C29: once all overlapping runs of fetchAllTasks have finished, the task
\* list displayed is the one read by the run that started last: the result of
\* an older run has not replaced it.
C29_NewestRefreshShown ==
    AllFinished => shownTasks = runs[Len(runs)].fetchedTasks

====
